---- MODULE Spec2Model ----
(***************************************************************************)
(* A model of src/app.py (RangkumIN, a Streamlit research assistant).      *)
(*                                                                         *)
(* Three specifications share the module:                                  *)
(*   SpecScore      the keyword-overlap score of find_related_journals,    *)
(*                  applied to bounded concept strings and paper texts;    *)
(*   SpecRetriever  one run of find_related_journals, statement by         *)
(*                  statement, against a nondeterministic generation       *)
(*                  service and arXiv search;                              *)
(*   Spec           the Streamlit session: one action per user action or   *)
(*                  st.rerun(), each running the whole script main().      *)
(*                                                                         *)
(* Python strings are sequences of one-character strings.  Python's None   *)
(* is the empty tuple and a value v that is not None is <<v>>, so that     *)
(* None, [] and a non-empty list stay three different values.              *)
(***************************************************************************)
EXTENDS Integers, Sequences, FiniteSets, TLC

VARIABLES
    \* ---- find_related_journals (one run) ----
    document_text,  \* the argument of find_related_journals
    pc,             \* position in find_related_journals
    concepts,       \* local `concepts` (output of the first generation call)
    query,          \* local `query` (output of the second generation call)
    delivered,      \* the results client.results(search) has yielded so far
    results,        \* local `results`
    matches,        \* local `matches` of the last candidate scored
    returned,       \* the value returned to the caller (None before return)
    st_error,       \* messages passed to st.error by find_related_journals
    calls,          \* the external calls issued, in order, with their inputs
    \* ---- the Streamlit session ----
    session_state,  \* st.session_state
    uploader,       \* the file held by the st.file_uploader widget
    view,           \* what the last script run rendered in the right column
    rerun_pending,  \* the last script run ended in st.rerun()
    searches,       \* runs of find_related_journals since the last user action
    tmp_files,      \* staging files of load_and_split_pdf still on disk
    last_upload     \* what the upload branch of the last script run did

retrieverVars == <<document_text, pc, concepts, query, delivered, results, matches, returned,
                   st_error, calls>>
sessionVars == <<session_state, uploader, view, rerun_pending, searches,
                 tmp_files, last_upload>>
vars == <<document_text, pc, concepts, query, delivered, results, matches, returned,
          st_error, calls, session_state, uploader, view, rerun_pending,
          searches, tmp_files, last_upload>>

None == <<>>
Some(v) == <<v>>

------------------------------------------------------------------------------
(* Bounds of the model.                                                     *)

MaxConceptLen == 4
MaxTitleLen == 1
MaxSummaryLen == 2
MaxChatLen == 3
MaxTmpFiles == 1
MaxSearches == 2

(* Program constants.                                                       *)

max_results == 7
MinMatches == 2
TopN == 5
ConceptInputCap == 10000
SummaryShown == 250

------------------------------------------------------------------------------
(* Python string operations used by find_related_journals.                  *)

Chars == {"a", "b", "A", " ", ","}

StringsUpTo(alphabet, n) == UNION {[1..k -> alphabet] : k \in 0..n}

LowerChar(c) == IF c = "A" THEN "a" ELSE IF c = "B" THEN "b" ELSE c

\* str.lower()
Lower(s) == [i \in 1..Len(s) |-> LowerChar(s[i])]

\* s[:n]
Slice(s, n) == SubSeq(s, 1, IF Len(s) < n THEN Len(s) ELSE n)

\* str.split(sep) with a one-character separator: every piece is kept,
\* empty ones included, and a string without the separator is one piece.
RECURSIVE Split(_, _)
Split(s, sep) ==
    IF \E i \in 1..Len(s) : s[i] = sep
    THEN LET i == CHOOSE j \in 1..Len(s) :
                      s[j] = sep /\ \A k \in 1..(j - 1) : s[k] # sep
         IN <<SubSeq(s, 1, i - 1)>> \o Split(SubSeq(s, i + 1, Len(s)), sep)
    ELSE <<s>>

\* str.strip(): leading and trailing whitespace removed
RECURSIVE Strip(_)
Strip(s) ==
    IF s = <<>> THEN s
    ELSE IF s[1] = " " THEN Strip(Tail(s))
    ELSE IF s[Len(s)] = " " THEN Strip(SubSeq(s, 1, Len(s) - 1))
    ELSE s

\* t in s
IsSubstring(t, s) ==
    \E i \in 0..(Len(s) - Len(t)) : SubSeq(s, i + 1, i + Len(t)) = t

Range(f) == {f[i] : i \in DOMAIN f}

\* doc_keywords = set(concepts.lower().split(','))
DocKeywords(c) == Range(Split(Lower(c), ","))

\* paper_text = f"{result.title} {result.summary}".lower()
PaperText(result) == Lower(result.title \o <<" ">> \o result.summary)

\* matches = sum(1 for kw in doc_keywords if kw.strip() in paper_text)
Matches(c, result) ==
    Cardinality({kw \in DocKeywords(c) :
                    IsSubstring(Strip(kw), PaperText(result))})


------------------------------------------------------------------------------
(* The ranking of find_related_journals.                                    *)

\* if matches >= 2
KeepsMutant(m) == m >= 1
Keeps(m) == m >= MinMatches

\* the dict appended to `results` (authors, published and doi are carried
\* along unchanged and read by nothing but the final formatting)
Paper(result, m) ==
    [title |-> result.title, summary |-> result.summary,
     pdf_url |-> result.pdf_url, relevance_score |-> m]

Reverse(l) == [i \in 1..Len(l) |-> l[Len(l) + 1 - i]]

\* x placed into the ascending list l behind every element whose key is not
\* larger: the stable insertion of list.sort
RECURSIVE InsertAsc(_, _)
InsertAsc(x, l) ==
    IF l = <<>> THEN <<x>>
    ELSE IF x.relevance_score < l[1].relevance_score THEN <<x>> \o l
    ELSE <<l[1]>> \o InsertAsc(x, Tail(l))

RECURSIVE StableSortAsc(_)
StableSortAsc(l) ==
    IF l = <<>> THEN <<>>
    ELSE InsertAsc(l[Len(l)], StableSortAsc(SubSeq(l, 1, Len(l) - 1)))

\* results.sort(key=lambda x: x['relevance_score'], reverse=True): CPython
\* reverses the list, sorts it stably in ascending key order and reverses it
\* again, which keeps equal keys in their original order.
SortByRelevanceUnstableMutant(l) == Reverse(StableSortAsc(l))
SortByRelevance(l) == Reverse(StableSortAsc(Reverse(l)))

\* results[:5]
TopResults(l) == Slice(l, TopN)

\* one entry of formatted_results
Format(idx, paper) ==
    [idx |-> idx, title |-> paper.title,
     relevance_stars |-> paper.relevance_score,
     summary |-> Slice(paper.summary, SummaryShown),
     pdf_url |-> paper.pdf_url]

FormattedResults(l) == [i \in 1..Len(l) |-> Format(i, l[i])]

\* return formatted_results if formatted_results else None
ReturnValue(formatted) == IF formatted = <<>> THEN None ELSE Some(formatted)

\* `results` after the loop body has run for `result`
ResultsAfter(res, c, result) ==
    IF Keeps(Matches(c, result))
    THEN Append(res, Paper(result, Matches(c, result)))
    ELSE res

------------------------------------------------------------------------------
(* One run of find_related_journals.                                        *)

\* what the generation service may answer to the keyword_extract prompt
ConceptOutputs == { <<"a", ",", "b">>, <<"a", ",", "b", ",">> }

\* what the generation service may answer to the query_build prompt
QueryOutputs == { <<"a">>, <<"b">> }

\* the titles and abstracts the search service may deliver
RetrieverTitles == { <<>>, <<"A">> }
RetrieverSummaries == { <<>>, <<"b">> }

RetrieverTexts == { <<"p1">>, <<"p1", "p2">> }

\* concept_chain.invoke({"document_text": document_text[:10000]})
ConceptChainInput == Slice(document_text, ConceptInputCap)

\* query_chain.invoke({"concepts": concepts})
QueryChainInputMutant == ConceptChainInput
QueryChainInput == concepts

\* arxiv.Search(query=query, ...)
SearchQuery == query

Call(op, input, ok) == [op |-> op, input |-> input, ok |-> ok]

RetrieverStart(text) ==
    /\ document_text = text
    /\ pc = "extract"
    /\ concepts = <<>>
    /\ query = <<>>
    /\ delivered = <<>>
    /\ results = <<>>
    /\ matches = 0
    /\ returned = None
    /\ st_error = <<>>
    /\ calls = <<>>

\* Langkah 1: the generation call either answers or raises
ExtractConcepts ==
    /\ pc = "extract"
    /\ \/ \E c \in ConceptOutputs :
             /\ concepts' = c
             /\ calls' = Append(calls, Call("keyword_extract", ConceptChainInput, TRUE))
             /\ pc' = "build"
       \/ /\ calls' = Append(calls, Call("keyword_extract", ConceptChainInput, FALSE))
          /\ pc' = "raised"
          /\ UNCHANGED concepts
    /\ UNCHANGED <<document_text, query, delivered, results, matches, returned, st_error>>
    /\ UNCHANGED sessionVars

\* Langkah 2
BuildQuery ==
    /\ pc = "build"
    /\ \/ \E q \in QueryOutputs :
             /\ query' = q
             /\ calls' = Append(calls, Call("query_build", QueryChainInput, TRUE))
             /\ pc' = "setup"
       \/ /\ calls' = Append(calls, Call("query_build", QueryChainInput, FALSE))
          /\ pc' = "raised"
          /\ UNCHANGED query
    /\ UNCHANGED <<document_text, concepts, delivered, results, matches, returned, st_error>>
    /\ UNCHANGED sessionVars

\* Langkah 3, before the try: arxiv.Client() and arxiv.Search(...)
SetupSearch ==
    /\ pc = "setup"
    /\ \/ /\ calls' = Append(calls, Call("search", SearchQuery, TRUE))
          /\ results' = <<>>
          /\ pc' = "iterate"
       \/ /\ calls' = Append(calls, Call("search", SearchQuery, FALSE))
          /\ pc' = "raised"
          /\ UNCHANGED results
    /\ UNCHANGED <<document_text, concepts, query, delivered, matches, returned, st_error>>
    /\ UNCHANGED sessionVars

\* one pass of `for result in client.results(search)`
FetchResult ==
    /\ pc = "iterate"
    /\ Len(delivered) < max_results
    /\ \E t \in RetrieverTitles, s \in RetrieverSummaries :
          LET result == [title |-> t, summary |-> s, pdf_url |-> Len(delivered) + 1]
          IN /\ delivered' = Append(delivered, result)
             /\ matches' = Matches(concepts, result)
             /\ results' = ResultsAfter(results, concepts, result)
    /\ UNCHANGED <<document_text, pc, concepts, query, returned, st_error, calls>>
    /\ UNCHANGED sessionVars

\* an exception inside the try: st.error(...); return []
SearchRaises ==
    /\ pc = "iterate"
    /\ calls' = Append(calls, Call("results", SearchQuery, FALSE))
    /\ st_error' = Append(st_error, "Error saat mencari di arXiv")
    /\ returned' = Some(Some(<<>>))
    /\ pc' = "returned"
    /\ UNCHANGED <<document_text, concepts, query, delivered, results, matches>>
    /\ UNCHANGED sessionVars

\* the iterator is exhausted: sort, truncate, format, return
FinishSearch ==
    /\ pc = "iterate"
    /\ calls' = Append(calls, Call("results", SearchQuery, TRUE))
    /\ results' = TopResults(SortByRelevance(results))
    /\ returned' = Some(ReturnValue(FormattedResults(results')))
    /\ pc' = "returned"
    /\ UNCHANGED <<document_text, concepts, query, delivered, matches, st_error>>
    /\ UNCHANGED sessionVars

\* the session plays no part in this specification
SessionIdle ==
    /\ session_state = <<>>
    /\ uploader = None
    /\ view = <<>>
    /\ rerun_pending = FALSE
    /\ searches = 0
    /\ tmp_files = 0
    /\ last_upload = <<>>

InitRetriever ==
    /\ \E text \in RetrieverTexts : RetrieverStart(text)
    /\ SessionIdle

NextRetriever ==
    \/ ExtractConcepts
    \/ BuildQuery
    \/ SetupSearch
    \/ FetchResult
    \/ SearchRaises
    \/ FinishSearch

SpecRetriever == InitRetriever /\ [][NextRetriever]_vars

------------------------------------------------------------------------------
(* The overlap score as a function of its inputs.                           *)

TitleChars == {"a", "B"}
SummaryChars == {"a", "b"}

InitScore ==
    /\ document_text = <<>>
    /\ pc = "score"
    /\ concepts \in StringsUpTo(Chars, MaxConceptLen)
    /\ \E t \in StringsUpTo(TitleChars, MaxTitleLen),
          s \in StringsUpTo(SummaryChars, MaxSummaryLen) :
          delivered = << [title |-> t, summary |-> s, pdf_url |-> 1] >>
    /\ query = <<>>
    /\ results = <<>>
    /\ matches = 0
    /\ returned = None
    /\ st_error = <<>>
    /\ calls = <<>>
    /\ SessionIdle

\* the loop body of find_related_journals applied to the one candidate
ScoreCandidate ==
    /\ pc = "score"
    /\ matches' = Matches(concepts, delivered[1])
    /\ results' = ResultsAfter(results, concepts, delivered[1])
    /\ pc' = "scored"
    /\ UNCHANGED <<document_text, concepts, query, delivered, returned, st_error, calls>>
    /\ UNCHANGED sessionVars

NextScore == ScoreCandidate

SpecScore == InitScore /\ [][NextScore]_vars

------------------------------------------------------------------------------
(* The Streamlit session: main() run once per user action or st.rerun().    *)

\* The PDFs the user may upload: a name and the text layer of each page
\* ("" for a page that is a scanned image).
Docs ==
    { [name |-> "p1.pdf", pages |-> <<"p1">>],
      [name |-> "p2.pdf", pages |-> <<"p2a", "p2b">>],
      [name |-> "scan.pdf", pages |-> <<"">>] }

Questions == {"q"}

\* text_splitter.split_documents(pages): a page shorter than chunk_size is
\* one chunk, a page without text gives none
SplitDocuments(pages) == SelectSeq(pages, LAMBDA p : p # "")

\* "\n\n".join(chunks); the empty string is <<>>
RECURSIVE JoinChunks(_)
JoinChunks(chunks) ==
    IF chunks = <<>> THEN <<>>
    ELSE IF Len(chunks) = 1 THEN chunks
    ELSE <<chunks[1], "\n\n">> \o JoinChunks(Tail(chunks))

\* The exit paths of load_and_split_pdf: NamedTemporaryFile may raise before
\* a file exists; read()/write() run inside the with block and before the
\* try; loader.load() and split_documents run inside the try.
IngestOutcomes ==
    {"ok", "tempfile_raises", "write_raises", "load_raises", "split_raises"}

load_and_split_pdf(pdf_file, outcome) ==
    LET created == outcome # "tempfile_raises"    \* delete=False: close keeps it
        try_entered == outcome \notin {"tempfile_raises", "write_raises"}
        unlinked == try_entered                   \* finally: os.unlink
    IN [raised |-> outcome # "ok",
        splits |-> IF outcome = "ok" THEN SplitDocuments(pdf_file.pages) ELSE <<>>,
        left_on_disk |-> IF created /\ ~unlinked THEN 1 ELSE 0]

\* The text a generation call returns is represented by the prompt kind and
\* the input it was generated from.
Artifact(kind, input) == [kind |-> kind, of |-> input]

\* generate_summary / generate_citations / chat_with_pdf, when they return
generate_summary(text) == Artifact("summary", text)
generate_citations(text) == Artifact("citation", text)
chat_with_pdf(question, text) == Artifact("answer", <<question, text>>)

Message(role, content) == [role |-> role, content |-> content]
Greeting == Message("assistant", "Kamu mau tau apa tentang aku?")

\* find_related_journals run to its return: the value it returns when both
\* generation calls answer and the search delivers `found` without raising
RECURSIVE ResultsOf(_, _)
ResultsOf(c, found) ==
    IF found = <<>> THEN <<>>
    ELSE ResultsAfter(ResultsOf(c, SubSeq(found, 1, Len(found) - 1)),
                      c, found[Len(found)])

find_related_journals(c, found) ==
    ReturnValue(FormattedResults(TopResults(SortByRelevance(ResultsOf(c, found)))))

\* what the search service delivers in the session
SessionDeliveries ==
    { <<>>,
      << [title |-> <<>>, summary |-> <<>>, pdf_url |-> 1],
         [title |-> <<"A">>, summary |-> <<"b">>, pdf_url |-> 2] >> }

\* The ways a call of find_related_journals ends: an exception of stage 1,
\* stage 2 or the search set-up reaches the caller; an exception inside the
\* try returns []; otherwise the formatted list or None.
RelatedOutcomes ==
    { [raised |-> TRUE, value |-> None], [raised |-> FALSE, value |-> Some(<<>>)] }
    \cup { [raised |-> FALSE, value |-> find_related_journals(c, found)] :
             c \in ConceptOutputs, found \in SessionDeliveries }

\* Python truthiness of None, [] and a non-empty list
Truthy(v) == v # None /\ v[1] # <<>>

\* lines 266-279 on the first run of the script
InitialSessionState ==
    [summary |-> None, current_mode |-> "summary", chat_history |-> <<>>,
     full_text |-> <<>>, citations |-> None, related_papers |-> None,
     uploaded_file |-> None]

NoUpload == [doc |-> None, status |-> "none", summary_calls |-> 0]

View(kind, content) == [kind |-> kind, content |-> content]

\* The state a script run works on.
Run(ss, tmp, text) ==
    [ss |-> ss, view |-> View("none", None), rerun |-> FALSE, searched |-> 0,
     tmp |-> tmp, upload |-> NoUpload, document_text |-> text]

\* lines 305-315: the mode buttons, rendered only when a summary exists
Buttons(r, ev) ==
    IF r.ss.summary = None THEN r
    ELSE IF ev = "btn_summary" THEN [r EXCEPT !.ss.current_mode = "summary"]
    ELSE IF ev = "btn_chat" THEN [r EXCEPT !.ss.current_mode = "chat"]
    ELSE IF ev = "btn_citation" THEN [r EXCEPT !.ss.current_mode = "citation"]
    ELSE IF ev = "btn_related"
         THEN [r EXCEPT !.ss.current_mode = "related_journals",
                        !.ss.related_papers = None]
    ELSE r

\* line 324
UploadCondition(ss, file) ==
    /\ file # None
    /\ \/ ss.summary = None
       \/ ss.uploaded_file = None
       \/ ss.uploaded_file # Some(file[1].name)

\* lines 328-337 for one outcome of load_and_split_pdf and of generate_summary
UploadWith(r, doc, outcome, summary_ok) ==
    LET got == load_and_split_pdf(doc, outcome)
        r1 == [r EXCEPT !.ss.uploaded_file = Some(doc.name),
                        !.tmp = r.tmp + got.left_on_disk]
        text == JoinChunks(got.splits)
    IN IF got.raised
       THEN [r1 EXCEPT !.upload = [doc |-> Some(doc), status |-> "ingest_error",
                                   summary_calls |-> 0]]
       ELSE IF ~summary_ok
       THEN [r1 EXCEPT !.ss.full_text = text,
                       !.upload = [doc |-> Some(doc), status |-> "summary_error",
                                   summary_calls |-> 1]]
       ELSE [r1 EXCEPT !.ss.full_text = text,
                       !.ss.summary = Some(generate_summary(text)),
                       !.ss.current_mode = "summary",
                       !.rerun = TRUE,
                       !.view = View("spinner", None),
                       !.upload = [doc |-> Some(doc), status |-> "done",
                                   summary_calls |-> 1]]

\* lines 324-337: every way the upload branch can end
UploadBranch(r, file) ==
    IF ~UploadCondition(r.ss, file) THEN {r}
    ELSE { UploadWith(r, file[1], outcome, summary_ok) :
             outcome \in {o \in IngestOutcomes :
                            o = "write_raises" => r.tmp < MaxTmpFiles},
             summary_ok \in BOOLEAN }

\* lines 339-346
SummaryMode(r) == { [r EXCEPT !.view = View("summary", r.ss.summary)] }

\* lines 348-384
ChatMode(r, ev) ==
    LET history == IF r.ss.chat_history = <<>> THEN <<Greeting>>
                   ELSE r.ss.chat_history
        r1 == [r EXCEPT !.ss.chat_history = history]
    IN IF ev \notin {<<"ask", q>> : q \in Questions}
       THEN { [r1 EXCEPT !.view = View("chat", history)] }
       ELSE LET asked == Append(history, Message("user", ev[2]))
                response == chat_with_pdf(ev[2], r.ss.full_text)
            IN { \* chat_with_pdf raises: nothing catches it, the run ends
                 [r1 EXCEPT !.ss.chat_history = asked,
                            !.view = View("chat", asked)],
                 [r1 EXCEPT !.ss.chat_history =
                                Append(asked, Message("assistant", response)),
                            !.view = View("chat", asked),
                            !.rerun = TRUE] }

\* lines 386-395
CitationMode(r) ==
    IF r.ss.citations = None
    THEN { \* generate_citations raises: nothing catches it, the run ends
           [r EXCEPT !.view = View("exception", None)],
           [r EXCEPT !.ss.citations = Some(generate_citations(r.ss.full_text)),
                     !.view = View("spinner", None),
                     !.rerun = TRUE] }
    ELSE { [r EXCEPT !.view = View("citation", r.ss.citations)] }

\* lines 411-422
ShowRelated(r) == [r EXCEPT !.view = View("related", r.ss.related_papers)]

\* lines 400-409 for one outcome of find_related_journals
RelatedWith(r, outcome) ==
    LET r1 == [r EXCEPT !.searched = r.searched + 1,
                        !.document_text = r.ss.full_text]
    IN IF outcome.raised
       THEN ShowRelated([r1 EXCEPT !.ss.related_papers = Some(<<>>)])
       ELSE \* the assignment, the warning when falsy, then st.rerun()
            [r1 EXCEPT !.ss.related_papers = outcome.value,
                       !.view = View("spinner", None),
                       !.rerun = TRUE]

\* lines 397-422
RelatedMode(r) ==
    IF r.ss.related_papers = None
    THEN { RelatedWith(r, outcome) : outcome \in RelatedOutcomes }
    ELSE { ShowRelated(r) }

\* lines 339-422
ModeBranch(r, ev) ==
    IF r.ss.current_mode = "summary" THEN SummaryMode(r)
    ELSE IF r.ss.current_mode = "chat" THEN ChatMode(r, ev)
    ELSE IF r.ss.current_mode = "citation" THEN CitationMode(r)
    ELSE RelatedMode(r)

\* "Coba Cari Lagi" (lines 418-420) is handled where it is rendered, after
\* the papers have been shown
SearchAgain(r) ==
    { [r EXCEPT !.ss.related_papers = None, !.rerun = TRUE] }

\* main(): every state one run of the script can end in
Main(ss, tmp, text, file, ev) ==
    UNION { IF r.rerun THEN {r}
            ELSE IF ev = "again" /\ r.ss.current_mode = "related_journals"
                    /\ Truthy(r.ss.related_papers)
            THEN SearchAgain(ShowRelated(r))
            ELSE ModeBranch(r, ev) :
            r \in UploadBranch(Buttons(Run(ss, tmp, text), ev), file) }

Min(a, b) == IF a < b THEN a ELSE b

\* one run of the script on event ev with `file` in the uploader
ScriptRun(ev, file, searched_before) ==
    \E r \in Main(session_state, tmp_files, document_text, file, ev) :
       /\ session_state' = r.ss
       /\ view' = r.view
       /\ rerun_pending' = r.rerun
       /\ searches' = Min(searched_before + r.searched, MaxSearches)
       /\ tmp_files' = r.tmp
       /\ last_upload' = r.upload
       /\ document_text' = r.document_text
       /\ uploader' = file
       /\ UNCHANGED <<pc, concepts, query, delivered, results, matches,
                      returned, st_error, calls>>

ButtonsRendered == session_state.summary # None

UserUploads ==
    /\ ~rerun_pending
    /\ \E d \in Docs : ScriptRun("upload", Some(d), 0)

UserRemovesFile ==
    /\ ~rerun_pending
    /\ uploader # None
    /\ ScriptRun("remove", None, 0)

UserPressesSummary ==
    /\ ~rerun_pending /\ ButtonsRendered
    /\ ScriptRun("btn_summary", uploader, 0)

UserPressesChat ==
    /\ ~rerun_pending /\ ButtonsRendered
    /\ ScriptRun("btn_chat", uploader, 0)

UserPressesCitation ==
    /\ ~rerun_pending /\ ButtonsRendered
    /\ ScriptRun("btn_citation", uploader, 0)

UserPressesRelated ==
    /\ ~rerun_pending /\ ButtonsRendered
    /\ ScriptRun("btn_related", uploader, 0)

UserAsks ==
    /\ ~rerun_pending
    /\ view.kind = "chat"
    /\ Len(session_state.chat_history) + 2 <= MaxChatLen
    /\ \E q \in Questions : ScriptRun(<<"ask", q>>, uploader, 0)

UserPressesSearchAgain ==
    /\ ~rerun_pending
    /\ view.kind = "related" /\ Truthy(view.content)
    /\ ScriptRun("again", uploader, 0)

\* st.rerun(): the script runs again with no widget triggered
Rerun ==
    /\ rerun_pending
    /\ ScriptRun("rerun", uploader, searches)

Init ==
    /\ document_text = <<>>
    /\ pc = "idle"
    /\ concepts = <<>>
    /\ query = <<>>
    /\ delivered = <<>>
    /\ results = <<>>
    /\ matches = 0
    /\ returned = None
    /\ st_error = <<>>
    /\ calls = <<>>
    /\ session_state = InitialSessionState
    /\ uploader = None
    /\ view = View("summary", None)
    /\ rerun_pending = FALSE
    /\ searches = 0
    /\ tmp_files = 0
    /\ last_upload = NoUpload

Next ==
    \/ UserUploads
    \/ UserRemovesFile
    \/ UserPressesSummary
    \/ UserPressesChat
    \/ UserPressesCitation
    \/ UserPressesRelated
    \/ UserAsks
    \/ UserPressesSearchAgain
    \/ Rerun

Spec == Init /\ [][Next]_vars

------------------------------------------------------------------------------
(* Properties of find_related_journals (SpecRetriever).                     *)

\* the list handed back to the caller (None counts as no candidates)
Out ==
    IF returned = None \/ returned[1] = None THEN <<>> ELSE returned[1][1]

\* the search ran to the end of the iterator
SearchSucceeded ==
    pc = "returned" /\ \E i \in DOMAIN calls : calls[i].op = "results" /\ calls[i].ok

\* an arXiv call of stage 3 raised
SearchFailed ==
    \E i \in DOMAIN calls : calls[i].op \in {"search", "results"} /\ ~calls[i].ok

\* the score the code computed for the j-th delivered candidate
ScoreOf(j) == Matches(concepts, delivered[j])

Survivors == {j \in DOMAIN delivered : ScoreOf(j) >= 2}

ReturnedUrls == {Out[i].pdf_url : i \in DOMAIN Out}

\* C1: when the search succeeds, every returned candidate has a score of at
\* least 2, no candidate with a score below 2 is returned, and at most 5
\* candidates are returned.
C1_ThresholdAndCap ==
    SearchSucceeded =>
        /\ Len(Out) <= 5
        /\ \A i \in DOMAIN Out :
              /\ Out[i].pdf_url \in DOMAIN delivered
              /\ ScoreOf(Out[i].pdf_url) >= 2
              /\ Out[i].relevance_stars >= 2
        /\ \A j \in DOMAIN delivered : ScoreOf(j) < 2 => j \notin ReturnedUrls

\* seven candidates delivered, six of them survive, one is below the
\* threshold, five are returned
C1_Witness ==
    /\ SearchSucceeded
    /\ Len(delivered) = max_results
    /\ Cardinality(Survivors) = 6
    /\ Len(Out) = 5

\* C2: the returned list is the first 5 of the survivors in stable descending
\* score order: scores never increase along it, equal scores keep the order
\* of delivery, and a survivor that is left out ranks behind every returned
\* candidate.
C2_StableDescendingTop5 ==
    SearchSucceeded =>
        /\ Len(Out) = Min(5, Cardinality(Survivors))
        /\ ReturnedUrls \subseteq Survivors
        /\ \A i \in DOMAIN Out :
              /\ Out[i].idx = i
              /\ Out[i].relevance_stars = ScoreOf(Out[i].pdf_url)
        /\ \A i, j \in DOMAIN Out :
              i < j =>
                 \/ Out[i].relevance_stars > Out[j].relevance_stars
                 \/ /\ Out[i].relevance_stars = Out[j].relevance_stars
                    /\ Out[i].pdf_url < Out[j].pdf_url
        /\ \A s \in Survivors \ ReturnedUrls : \A i \in DOMAIN Out :
              \/ ScoreOf(s) < Out[i].relevance_stars
              \/ /\ ScoreOf(s) = Out[i].relevance_stars
                 /\ s > Out[i].pdf_url

\* a run where the sort moved a later candidate forward, two returned
\* candidates tie, and a survivor was cut off
C2_Witness ==
    /\ SearchSucceeded
    /\ Len(Out) = 5
    /\ Cardinality(Survivors) > 5
    /\ \E i, j \in DOMAIN Out :
          i < j /\ Out[i].pdf_url > Out[j].pdf_url
    /\ \E i, j \in DOMAIN Out :
          i < j /\ Out[i].relevance_stars = Out[j].relevance_stars

\* C4: whenever an arXiv call of stage 3 fails (set-up or iteration), the run
\* ends by returning [] with an error reported, and nothing is raised.
C4_SearchFailureContained ==
    SearchFailed =>
        /\ pc = "returned"
        /\ returned = Some(Some(<<>>))
        /\ st_error # <<>>

StageOrder == <<"keyword_extract", "query_build", "search", "results">>

\* C8: the external calls of one run are a prefix of extraction, query
\* construction, search, each once and each only after the one before
\* succeeded; query construction is given the concepts of stage 1 and the
\* search the query of stage 2; a failed generation call ends the run with
\* the exception at the caller and no search.
C8_StagesInOrder ==
    /\ Len(calls) <= Len(StageOrder)
    /\ \A i \in DOMAIN calls :
          /\ calls[i].op = StageOrder[i]
          /\ i < Len(calls) => calls[i].ok
    /\ Len(calls) >= 1 => calls[1].input = Slice(document_text, ConceptInputCap)
    /\ Len(calls) >= 2 =>
          calls[2].input = concepts /\ concepts \in ConceptOutputs
    /\ Len(calls) >= 3 =>
          calls[3].input = query /\ query \in QueryOutputs
    /\ \A i \in DOMAIN calls :
          (i <= 2 /\ ~calls[i].ok) =>
              /\ pc = "raised"
              /\ returned = None
              /\ delivered = <<>>
    /\ pc \in {"extract", "build", "setup", "iterate", "returned", "raised"}
    /\ pc = "extract" <=> calls = <<>>
    /\ pc = "build" => Len(calls) = 1
    /\ pc = "setup" => Len(calls) = 2
    /\ pc = "iterate" => Len(calls) = 3
    /\ pc = "returned" => Len(calls) = 4

\* a run that went through all three stages and returned candidates
C8_Witness ==
    /\ pc = "returned"
    /\ Len(calls) = 4
    /\ Out # <<>>

------------------------------------------------------------------------------
(* The overlap score (SpecScore).                                           *)

\* the distinct non-empty trimmed lower-case terms of a concept string
Terms(c) == {Strip(kw) : kw \in Range(Split(Lower(c), ","))} \ {<<>>}

\* C3: the computed score is the number of distinct non-empty trimmed terms
\* that occur in the candidate's title plus abstract.
C3_ScoreCountsTerms ==
    pc = "scored" =>
        matches = Cardinality({t \in Terms(concepts) :
                                  IsSubstring(t, PaperText(delivered[1]))})

------------------------------------------------------------------------------
(* Properties of the session (Spec).                                        *)

\* C5: after any call of load_and_split_pdf has returned or raised, none of
\* its staging files is left on disk.
C5_NoStagingFileLeft == tmp_files = 0

HasTextLayer(doc) == SplitDocuments(doc.pages) # <<>>

\* C6: an upload of a document without text layer ends in an ingestion
\* error, with no summary generation call and no summary of that document.
C6_UnreadableDocumentRejected ==
    (last_upload.doc # None /\ ~HasTextLayer(last_upload.doc[1])) =>
        /\ last_upload.status = "ingest_error"
        /\ last_upload.summary_calls = 0

\* C7: find_related_journals runs at most once between two user actions.
C7_OneSearchPerRequest == searches <= 1

TextOf(doc) == JoinChunks(SplitDocuments(doc.pages))

\* C9: the summary is the summary of full_text, and full_text is the text of
\* the document named by uploaded_file.
C9_SummaryTextAndFileAgree ==
    session_state.summary # None =>
        /\ session_state.summary[1].of = session_state.full_text
        /\ session_state.uploaded_file # None
        /\ \E d \in Docs :
              /\ d.name = session_state.uploaded_file[1]
              /\ TextOf(d) = session_state.full_text

\* a document is loaded: its text and the summary of that text are in place
DocumentLoaded ==
    /\ session_state.summary # None
    /\ session_state.summary[1].of = session_state.full_text

\* C10: once a document is loaded, the citations, the chat answers and the
\* related papers on screen were produced from that document.
C10_ShownArtifactsAreCurrent ==
    DocumentLoaded =>
        /\ view.kind = "citation" =>
              view.content[1].of = session_state.full_text
        /\ view.kind = "chat" =>
              \A i \in DOMAIN view.content :
                 view.content[i].role = "assistant" /\ i > 1 =>
                    view.content[i].content.of[2] = session_state.full_text
        /\ (view.kind = "related" /\ Truthy(view.content)) =>
              document_text = session_state.full_text

====
